---------------------------- MODULE Spec2Model ----------------------------
(***************************************************************************)
(* Model of the numeric core of the Turbos CLMM SDK Pool class:            *)
(*   getTokenAmountsFromLiquidity, getMinimumAmountBySlippage,             *)
(*   getTickIndex            (src/unnamed/part_000, the current Pool)      *)
(*   selectCoinIds           (src/unnamed/part_001, the earlier Pool)      *)
(*                                                                         *)
(* Numbers.  The code computes with three kinds of number, and the model   *)
(* keeps what each of them does to a value:                                *)
(*   - BN: unbounded integers, modelled by TLA+ integers;                  *)
(*   - Decimal (decimal.js): the constructor is exact, and every           *)
(*     arithmetic method (plus, minus, mul, div) rounds its result to      *)
(*     `precision` significant digits, half away from zero.  decimal.js    *)
(*     ships with precision 20; TLC's integers are 32 bits wide, so the    *)
(*     model runs the same arithmetic with Precision significant digits,   *)
(*     a scaled-down bound, on inputs scaled down with it;                 *)
(*   - Number (IEEE double): integers are exact up to 2^53 and above that  *)
(*     are rounded to 53 significant bits, ties to even.  The model keeps  *)
(*     MantissaBits significant bits.                                      *)
(* The X64 shift 2^64 is scaled to 2^X64Bits for the same reason.          *)
(***************************************************************************)
EXTENDS Integers, Sequences, FiniteSets

\* ------------------------------------------------------------------ bounds
\* significant digits a Decimal operation keeps (decimal.js: 20)
Precision == 3
\* the X64 fixed-point shift (the code: 64)
X64Bits == 4
\* significant bits of a Number (IEEE double: 53)
MantissaBits == 3
\* |amount| handed to getMinimumAmountBySlippage
MaxAmount == 120

\* ------------------------------------------------------- integer helpers
Abs(x) == IF x < 0 THEN -x ELSE x

RECURSIVE GCD(_, _)
GCD(a, b) == IF b = 0 THEN a ELSE GCD(b, a % b)

RECURSIVE Pow(_, _)
Pow(b, k) == IF k = 0 THEN 1 ELSE b * Pow(b, k - 1)

\* number of decimal digits of an integer q >= 1
RECURSIVE IntDigits(_)
IntDigits(q) == IF q < 10 THEN 1 ELSE 1 + IntDigits(q \div 10)

\* for 0 < a < d: the least z with a * 10^z >= d
RECURSIVE LeadShift(_, _)
LeadShift(a, d) == IF a >= d THEN 0 ELSE 1 + LeadShift(a * 10, d)

\* x / y for x >= 0, y > 0, rounded to the nearest integer, halves up
RoundHalfUpDiv(x, y) == (2 * x + y) \div (2 * y)

\* --------------------------------------------------------------- Decimal
\* A Decimal value is the rational n / d, d > 0, kept in lowest terms.
Norm(n, d) ==
    LET g == GCD(Abs(n), d)
    IN  [n |-> IF n < 0 THEN -(Abs(n) \div g) ELSE n \div g, d |-> d \div g]

\* new Decimal(value): exact, whatever the number of digits
Dec(i) == [n |-> i, d |-> 1]

\* n / d rounded to Precision significant digits, half away from zero: what
\* decimal.js does to the result of plus, minus, mul and div
RoundSig(n, d) ==
    IF n = 0 THEN Dec(0)
    ELSE LET a  == Abs(n)
             sg == IF n < 0 THEN -1 ELSE 1
             q  == a \div d
         IN  IF q >= 1 /\ IntDigits(q) >= Precision
             THEN LET unit == Pow(10, IntDigits(q) - Precision)
                  IN  Dec(sg * RoundHalfUpDiv(a, d * unit) * unit)
             ELSE LET k    == IF q >= 1 THEN Precision - IntDigits(q)
                                        ELSE LeadShift(a, d) + Precision - 1
                      g    == GCD(Pow(10, k), d)
                      m    == RoundHalfUpDiv(a * (Pow(10, k) \div g), d \div g)
                  IN  Norm(sg * m, Pow(10, k))

plus(x, y)  == RoundSig(x.n * y.d + y.n * x.d, x.d * y.d)
minus(x, y) == RoundSig(x.n * y.d - y.n * x.d, x.d * y.d)
mul(x, y)   == RoundSig(x.n * y.n, x.d * y.d)
\* y # 0
div(x, y)   == IF y.n < 0 THEN RoundSig(-(x.n * y.d), x.d * (-y.n))
                          ELSE RoundSig(x.n * y.d, x.d * y.n)

lt(x, y)  == x.n * y.d <  y.n * x.d
lte(x, y) == x.n * y.d <= y.n * x.d
gt(x, y)  == x.n * y.d >  y.n * x.d
gte(x, y) == x.n * y.d >= y.n * x.d

\* Decimal.floor / Decimal.ceil: to a whole number (\div rounds down)
floor(x) == x.n \div x.d
ceil(x)  == -((-x.n) \div x.d)
\* Decimal.toFixed(0): to a whole number in the rounding mode of the
\* Decimal configuration, ROUND_HALF_UP (nearest, halves away from zero)
toFixed0(x) ==
    IF x.n < 0 THEN -RoundHalfUpDiv(-x.n, x.d) ELSE RoundHalfUpDiv(x.n, x.d)

\* ---------------------------------------------------------------- Number
\* number of binary digits of an integer q >= 1
RECURSIVE BitLength(_)
BitLength(q) == IF q < 2 THEN 1 ELSE 1 + BitLength(q \div 2)

\* Number(text) for the decimal text of an integer b >= 0: the nearest value
\* with MantissaBits significant bits, ties to the even mantissa
Number(b) ==
    IF b < Pow(2, MantissaBits) THEN b
    ELSE LET unit == Pow(2, BitLength(b) - MantissaBits)
             q    == b \div unit
             r    == b % unit
         IN  IF 2 * r > unit \/ (2 * r = unit /\ q % 2 = 1)
             THEN (q + 1) * unit
             ELSE q * unit

\* ------------------------------------------------------------------ state
VARIABLES
    amount,           \* getMinimumAmountBySlippage: the amount argument
    slippage,         \*   the slippage argument, in hundredths of a percent
    minimumAmount,    \*   its outcome: pending, thrown or returned
    currentSqrtPrice, \* getTokenAmountsFromLiquidity: options.currentSqrtPrice
    lowerSqrtPrice,   \*   options.lowerSqrtPrice
    upperSqrtPrice,   \*   options.upperSqrtPrice
    liquidity,        \*   options.liquidity
    ceilOption,       \*   options.ceil: "undefined", "true" or "false"
    tokenAmounts,     \*   its outcome; the value is the pair <<a, b>>
    owned,            \* selectCoinIds: balances of the owner's coins of the
                      \*   coin type, in the order the provider lists them
    pageSize,         \*   coins per page of provider.getCoins
    needAmount,       \*   the needAmount argument
    cursor,           \*   result.nextCursor: coins listed so far
    coins,            \*   the local array coins
    coinIds,          \*   its outcome; the value is the array coinIds
    requests,         \*   the getCoins calls made so far: the cursor passed
                      \*   and the response (data, nextCursor, hasNextPage)
    derivedTick,      \* getTickIndex: what math.priceToTickIndex returned
    tickSpacing,      \*   fee.tickSpacing
    tickIndex,        \*   its outcome
    coinType,         \* isSUI: the coinType argument, a sequence of characters
    isSuiResult,      \*   its outcome
    poolTypeCache,    \* Pool instance: the cache entry keyed 'pool-type'
                      \*   (<<>> when there is none)
    callName,         \* the operation in progress or last made: createPool,
                      \*   addLiquidity, increaseLiquidity, decreaseLiquidity
    options,          \*   its options: coins, pool, nft, slippage
    pc,               \*   the await the operation is at
    pool,             \*   the local pool: options.pool or the nft's pool_id
    typeArguments,    \*   the local typeArguments (<<>> before it is set)
    signCount,        \*   invocations of options.signAndExecute by this call
    callResult        \*   its outcome

slippageVars  == <<amount, slippage, minimumAmount>>
liquidityVars == <<currentSqrtPrice, lowerSqrtPrice, upperSqrtPrice, liquidity,
                   ceilOption, tokenAmounts>>
selectVars    == <<owned, pageSize, needAmount, cursor, coins, coinIds,
                   requests>>
tickVars      == <<derivedTick, tickSpacing, tickIndex>>
suiVars       == <<coinType, isSuiResult>>
poolVars      == <<poolTypeCache, callName, options, pc, pool, typeArguments,
                   signCount, callResult>>
vars == <<slippageVars, liquidityVars, selectVars, tickVars, suiVars, poolVars>>

\* the outcome of a call: not made, pending, thrown or returned; `none` is
\* the value an outcome other than "return" carries
Idle(none)   == [kind |-> "idle",    value |-> none]
Pending(none) == [kind |-> "pending", value |-> none]
Thrown(none) == [kind |-> "throw",   value |-> none]
Returned(v)  == [kind |-> "return",  value |-> v]

\* a component no call is made to
NoSlippageCall  == amount = 0 /\ slippage = 0 /\ minimumAmount = Idle(0)
NoLiquidityCall ==
    /\ currentSqrtPrice = 1 /\ lowerSqrtPrice = 1 /\ upperSqrtPrice = 2
    /\ liquidity = 0 /\ ceilOption = "undefined" /\ tokenAmounts = Idle(<<0, 0>>)
NoSelectCall ==
    /\ owned = <<>> /\ pageSize = 1 /\ needAmount = 0 /\ cursor = 0
    /\ coins = <<>> /\ coinIds = Idle(<<>>) /\ requests = <<>>
NoTickCall == derivedTick = 0 /\ tickSpacing = 1 /\ tickIndex = Idle(0)
NoIsSUICall == coinType = <<>> /\ isSuiResult = Idle(FALSE)
NoOptions == [coins |-> <<>>, pool |-> "", nft |-> "", slippage |-> 0]
NoPoolCall ==
    /\ poolTypeCache = <<>> /\ callName = "" /\ options = NoOptions
    /\ pc = "idle" /\ pool = "" /\ typeArguments = <<>> /\ signCount = 0
    /\ callResult = Idle("")

\* ----------------------------------------------- getMinimumAmountBySlippage
\* slippage values, in hundredths of a percent: -5, -1, -0.01, 0, 0.01, 0.5,
\* 1, 10, 25, 50, 99, 99.5, 99.99, 100, 100.01, 105
SlippageHundredths ==
    {-500, -100, -1, 0, 1, 50, 100, 1000, 2500, 5000, 9900, 9950, 9999,
     10000, 10001, 10500}
AmountSet == (-MaxAmount .. MaxAmount) \cup {1000}

\* new Decimal(slippage)
SlippageDecimal(h) == Norm(h, 100)

\* const ratio = new Decimal(1).minus(new Decimal(slippage).div(100))
SlippageRatio(h) == minus(Dec(1), div(SlippageDecimal(h), Dec(100)))

\* mutant: the amount divided by the ratio instead of multiplied
getMinimumAmountBySlippage_DividesByRatio(a, h) ==
    LET origin == Dec(a)
        ratio  == SlippageRatio(h)
    IN  IF lte(ratio, Dec(0)) \/ gt(ratio, Dec(1))
        THEN Thrown(0)
        ELSE Returned(toFixed0(div(origin, ratio)))

getMinimumAmountBySlippage(a, h) ==
    LET origin == Dec(a)
        ratio  == SlippageRatio(h)
    IN  IF lte(ratio, Dec(0)) \/ gt(ratio, Dec(1))
        THEN Thrown(0)
        ELSE Returned(toFixed0(mul(origin, ratio)))

InitSlippage ==
    /\ amount \in AmountSet
    /\ slippage \in SlippageHundredths
    /\ minimumAmount = Pending(0)
    /\ NoLiquidityCall /\ NoSelectCall /\ NoTickCall /\ NoIsSUICall
    /\ NoPoolCall

CallGetMinimumAmountBySlippage ==
    /\ minimumAmount.kind = "pending"
    /\ minimumAmount' = getMinimumAmountBySlippage(amount, slippage)
    /\ UNCHANGED <<amount, slippage, liquidityVars, selectVars, tickVars,
                   suiVars, poolVars>>

NextSlippage == CallGetMinimumAmountBySlippage

SpecSlippage == InitSlippage /\ [][NextSlippage]_vars


\* --------------------------------------------- getTokenAmountsFromLiquidity
MaxSqrtPrice == 12
MaxLiquidity == 8
CeilOptions == {"undefined", "true", "false"}

\* math.toX64_Decimal / math.fromX64_Decimal: the shift by 2^64, exact
toX64_Decimal(x)   == Norm(x.n * Pow(2, X64Bits), x.d)
fromX64_Decimal(x) == Norm(x.n, x.d * Pow(2, X64Bits))

\* the branch currentSqrtPrice < lowerSqrtPrice
AmountsBelowRange(liq, lowerPrice, upperPrice) ==
    [a |-> div(mul(toX64_Decimal(liq), minus(upperPrice, lowerPrice)),
               mul(lowerPrice, upperPrice)),
     b |-> Dec(0)]

\* mutant: amountB from the current price, the lower price not subtracted
AmountsInRange_NoLowerBound(liq, currentPrice, lowerPrice, upperPrice) ==
    [a |-> div(mul(toX64_Decimal(liq), minus(upperPrice, currentPrice)),
               mul(currentPrice, upperPrice)),
     b |-> fromX64_Decimal(mul(liq, currentPrice))]

\* the branch lowerSqrtPrice <= currentSqrtPrice < upperSqrtPrice
AmountsInRange(liq, currentPrice, lowerPrice, upperPrice) ==
    [a |-> div(mul(toX64_Decimal(liq), minus(upperPrice, currentPrice)),
               mul(currentPrice, upperPrice)),
     b |-> fromX64_Decimal(mul(liq, minus(currentPrice, lowerPrice)))]

\* the branch currentSqrtPrice >= upperSqrtPrice
AmountsAboveRange(liq, lowerPrice, upperPrice) ==
    [a |-> Dec(0),
     b |-> fromX64_Decimal(mul(liq, minus(upperPrice, lowerPrice)))]

\* amount[methodName]() with methodName = ceil unless options.ceil is false
RoundAmount(x, opt) == IF opt # "false" THEN ceil(x) ELSE floor(x)

getTokenAmountsFromLiquidity(cur, lower, upper, liq, opt) ==
    LET amounts ==
            IF cur < lower
            THEN AmountsBelowRange(Dec(liq), Dec(lower), Dec(upper))
            ELSE IF cur < upper
            THEN AmountsInRange(Dec(liq), Dec(cur), Dec(lower), Dec(upper))
            ELSE AmountsAboveRange(Dec(liq), Dec(lower), Dec(upper))
    IN  <<RoundAmount(amounts.a, opt), RoundAmount(amounts.b, opt)>>

\* The options of a call: a price range lower < upper, a current price
\* anywhere, a liquidity that is given (an absent one stands for
\* BN(100_000_000), one more value of the same computation).
InitLiquidity ==
    /\ lowerSqrtPrice \in 1 .. MaxSqrtPrice
    /\ upperSqrtPrice \in 1 .. MaxSqrtPrice
    /\ lowerSqrtPrice < upperSqrtPrice
    /\ currentSqrtPrice \in 1 .. MaxSqrtPrice
    /\ liquidity \in 0 .. MaxLiquidity
    /\ ceilOption \in CeilOptions
    /\ tokenAmounts = Pending(<<0, 0>>)
    /\ NoSlippageCall /\ NoSelectCall /\ NoTickCall /\ NoIsSUICall
    /\ NoPoolCall

CallGetTokenAmountsFromLiquidity ==
    /\ tokenAmounts.kind = "pending"
    /\ tokenAmounts' = Returned(getTokenAmountsFromLiquidity(
                            currentSqrtPrice, lowerSqrtPrice, upperSqrtPrice,
                            liquidity, ceilOption))
    /\ UNCHANGED <<currentSqrtPrice, lowerSqrtPrice, upperSqrtPrice, liquidity,
                   ceilOption, slippageVars, selectVars, tickVars, suiVars,
                   poolVars>>

NextLiquidity == CallGetTokenAmountsFromLiquidity

SpecLiquidity == InitLiquidity /\ [][NextLiquidity]_vars

\* ----------------------------------------------------------- getTickIndex
MaxTick == 12
MaxTickSpacing == 4

\* the remainder a % b of two Numbers, b > 0: it takes the sign of a
Remainder(a, b) == IF a < 0 THEN -((-a) % b) ELSE a % b

\* mutant: tick = tick % fee.tickSpacing
getTickIndex_KeepsRemainder(tick, spacing) == Remainder(tick, spacing)

\* tick -= tick % fee.tickSpacing
getTickIndex(tick, spacing) == tick - Remainder(tick, spacing)

InitTick ==
    /\ derivedTick \in -MaxTick .. MaxTick
    /\ tickSpacing \in 1 .. MaxTickSpacing
    /\ tickIndex = Pending(0)
    /\ NoSlippageCall /\ NoLiquidityCall /\ NoSelectCall /\ NoIsSUICall
    /\ NoPoolCall

CallGetTickIndex ==
    /\ tickIndex.kind = "pending"
    /\ tickIndex' = Returned(getTickIndex(derivedTick, tickSpacing))
    /\ UNCHANGED <<derivedTick, tickSpacing, slippageVars, liquidityVars,
                   selectVars, suiVars, poolVars>>

NextTick == CallGetTickIndex

SpecTick == InitTick /\ [][NextTick]_vars



\* ----------------------------------------------------------- selectCoinIds
MaxCoins == 3
MaxNeedAmount == 12
MaxPageSize == 2
\* getCoins calls of one selectCoinIds call; MaxCoins + 1 are never needed
MaxRequests == 4
\* balances of a coin object, in base units
Balances == {0, 1, 2, 3, 8, 9, 20}

Min(a, b) == IF a <= b THEN a ELSE b

\* the coin records of the owner: coinObjectId is the place in the listing
CoinRecord(i) == [coinObjectId |-> i, balance |-> owned[i]]

\* provider.getCoins({owner, coinType, cursor}): the page after `cur`
GetCoinsData(cur) ==
    [i \in 1 .. (Min(cur + pageSize, Len(owned)) - cur) |-> CoinRecord(cur + i)]
GetCoinsHasNextPage(cur) == cur + pageSize < Len(owned)
GetCoinsNextCursor(cur) == Min(cur + pageSize, Len(owned))
\* the response to getCoins({owner, coinType, cursor: cur}), with the request
GetCoins(cur) ==
    [cursor |-> cur, data |-> GetCoinsData(cur),
     nextCursor |-> GetCoinsNextCursor(cur),
     hasNextPage |-> GetCoinsHasNextPage(cur)]

\* mutant: every request starts from the beginning of the listing
RequestCursor_Undefined(nextCursor) == 0

\* cursor: result?.nextCursor (undefined, the beginning, on the first turn)
RequestCursor(nextCursor) == nextCursor

\* (a, b) => Number(b.balance) - Number(a.balance)
CompareCoins(a, b) == Number(b.balance) - Number(a.balance)

\* Array.prototype.sort is stable: x, which arrived after every record of
\* the sorted s, goes behind the records the comparator does not put after it
RECURSIVE InsertSorted(_, _)
InsertSorted(x, s) ==
    IF s = <<>> THEN <<x>>
    ELSE IF CompareCoins(Head(s), x) <= 0
         THEN <<Head(s)>> \o InsertSorted(x, Tail(s))
         ELSE <<x>> \o s

RECURSIVE SortCoins(_)
SortCoins(s) ==
    IF s = <<>> THEN <<>>
    ELSE InsertSorted(s[Len(s)], SortCoins(SubSeq(s, 1, Len(s) - 1)))

\* mutant: the loop stops one record early
RECURSIVE SelectLoop_SkipsLast(_, _, _, _, _)
SelectLoop_SkipsLast(sorted, i, ids, totalAmount, need) ==
    IF i >= Len(sorted) THEN ids
    ELSE LET pushed == Append(ids, sorted[i].coinObjectId)
             total  == plus(totalAmount, Dec(sorted[i].balance))
         IN  IF gte(total, Dec(need)) THEN pushed
             ELSE SelectLoop_SkipsLast(sorted, i + 1, pushed, total, need)

\* for (const coin of coins) { push; add; if (totalAmount.gte(needAmount)) break }
RECURSIVE SelectLoop(_, _, _, _, _)
SelectLoop(sorted, i, ids, totalAmount, need) ==
    IF i > Len(sorted) THEN ids
    ELSE LET pushed == Append(ids, sorted[i].coinObjectId)
             total  == plus(totalAmount, Dec(sorted[i].balance))
         IN  IF gte(total, Dec(need)) THEN pushed
             ELSE SelectLoop(sorted, i + 1, pushed, total, need)

\* what follows the do-while: sort, then select
SelectFrom(all, need) == SelectLoop(SortCoins(all), 1, <<>>, Dec(0), need)

InitSelect ==
    /\ owned \in UNION {[1 .. n -> Balances] : n \in 0 .. MaxCoins}
    /\ pageSize \in 1 .. MaxPageSize
    /\ needAmount \in 0 .. MaxNeedAmount
    /\ cursor = 0
    /\ coins = <<>>
    /\ coinIds = Pending(<<>>)
    /\ requests = <<>>
    /\ NoSlippageCall /\ NoLiquidityCall /\ NoTickCall /\ NoIsSUICall
    /\ NoPoolCall

\* one turn of the do-while whose page has a next page
GetCoinsPage ==
    /\ coinIds.kind = "pending"
    /\ Len(requests) < MaxRequests
    /\ LET result == GetCoins(RequestCursor(cursor))
       IN  /\ result.hasNextPage
           /\ coins' = coins \o result.data
           /\ cursor' = result.nextCursor
           /\ requests' = Append(requests, result)
    /\ UNCHANGED <<owned, pageSize, needAmount, coinIds, slippageVars,
                   liquidityVars, tickVars, suiVars, poolVars>>

\* the turn that receives the last page, and the rest of the method
GetCoinsLastPage ==
    /\ coinIds.kind = "pending"
    /\ Len(requests) < MaxRequests
    /\ LET result == GetCoins(RequestCursor(cursor))
       IN  /\ ~result.hasNextPage
           /\ coins' = SortCoins(coins \o result.data)
           /\ coinIds' = Returned(SelectFrom(coins \o result.data, needAmount))
           /\ cursor' = result.nextCursor
           /\ requests' = Append(requests, result)
    /\ UNCHANGED <<owned, pageSize, needAmount, slippageVars, liquidityVars,
                   tickVars, suiVars, poolVars>>

NextSelect == GetCoinsPage \/ GetCoinsLastPage

SpecSelect == InitSelect /\ [][NextSelect]_vars

\* ------------------------------------------------------------------ isSUI
MaxTypeLen == 4
\* the characters coin types are drawn from; a string is a sequence of them
TypeChars == {"s", "u", "i", "S", "U", "I", "k", " "}

\* a string literal as the sequence of its characters
SUI_LITERAL == <<"s", "u", "i">>
\* the coin types of the test suite
ValidCoinTypes ==
    { <<"a", ":", ":", "s", "u", "i", ":", ":", "S", "U", "I">>,
      <<"a", ".", "s", "u", "i">>,
      <<"S", "U", "I">>,
      <<"s", "u", "i">>,
      <<"s", "u", "i", "k">> }
InvalidCoinTypes ==
    { <<"a", ":", ":", "s", "b", "u", "i">>,
      <<"a", ".", "s", "u">>,
      <<"s", "u", "k", "i">>,
      <<"s", " ", "u", "i">>,
      <<"s", "o", "m", "e", "t", "e", "x", "t">> }

\* String.prototype.toLowerCase, on the characters in use
UpperCaseLetters == <<"S", "U", "I">>
LowerCaseLetters == <<"s", "u", "i">>
LowerChar(c) ==
    IF \E k \in 1 .. Len(UpperCaseLetters) : UpperCaseLetters[k] = c
    THEN LowerCaseLetters[CHOOSE k \in 1 .. Len(UpperCaseLetters) :
                              UpperCaseLetters[k] = c]
    ELSE c
toLowerCase(str) == [k \in 1 .. Len(str) |-> LowerChar(str[k])]

\* String.prototype.indexOf: the first position (from 0) at which the
\* search string occurs, -1 when there is none
RECURSIVE IndexOfFrom(_, _, _)
IndexOfFrom(str, search, from) ==
    IF from + Len(search) > Len(str) THEN -1
    ELSE IF SubSeq(str, from + 1, from + Len(search)) = search THEN from
         ELSE IndexOfFrom(str, search, from + 1)
indexOf(str, search) == IndexOfFrom(str, search, 0)

\* mutant: the coin type is searched as given
isSUI_CaseSensitive(type) == indexOf(type, SUI_LITERAL) > -1

\* return coinType.toLowerCase().indexOf('sui') > -1
isSUI(type) == indexOf(toLowerCase(type), SUI_LITERAL) > -1

InitIsSUI ==
    /\ coinType \in UNION {[1 .. n -> TypeChars] : n \in 0 .. MaxTypeLen}
                    \cup ValidCoinTypes \cup InvalidCoinTypes
    /\ isSuiResult = Pending(FALSE)
    /\ NoSlippageCall /\ NoLiquidityCall /\ NoSelectCall /\ NoTickCall
    /\ NoPoolCall

CallIsSUI ==
    /\ isSuiResult.kind = "pending"
    /\ isSuiResult' = Returned(isSUI(coinType))
    /\ UNCHANGED <<coinType, slippageVars, liquidityVars, selectVars, tickVars,
                   poolVars>>

NextIsSUI == CallIsSUI

SpecIsSUI == InitIsSUI /\ [][NextIsSUI]_vars

\* -------------------------------------------------------- Pool operations
\* a struct or coin type is the sequence of its \w+ words: 0x2::sui::SUI
SUI_TYPE   == <<"0x2", "sui", "SUI">>
USDC_TYPE  == <<"0xa", "usdc", "USDC">>
ETH_TYPE   == <<"0xb", "eth", "ETH">>
XYZ_TYPE   == <<"0xc", "xyz", "XYZ">>
FEE_LOW    == <<"0xpkg", "fee500bps", "FEE500BPS">>
FEE_HIGH   == <<"0xpkg", "fee3000bps", "FEE3000BPS">>
POOL_STRUCT == <<"0xpkg", "pool", "Pool">>
NFT_STRUCT  == <<"0xpkg", "position_nft", "TurbosPositionNFT">>

\* the objects of the ledger; a type is the sequence of the paths between
\* its brackets and commas: 0xpkg::pool::Pool<0x2::sui::SUI, ..., ...>
PoolIds == {"0xpoolA", "0xpoolB", "0xpoolXyz", "0xpoolU64", "0xgone"}
NftIds  == {"0xnftA", "0xnftB", "0xnftShared", "0xgone"}
ObjectExists(id) == id # "0xgone"
getObjectType(id) ==
    CASE id = "0xpoolA"   -> <<POOL_STRUCT, SUI_TYPE, USDC_TYPE, FEE_HIGH>>
      [] id = "0xpoolB"   -> <<POOL_STRUCT, ETH_TYPE, USDC_TYPE, FEE_LOW>>
      [] id = "0xpoolXyz" -> <<POOL_STRUCT, XYZ_TYPE, USDC_TYPE, FEE_LOW>>
      [] id = "0xpoolU64" -> <<POOL_STRUCT, <<"u64">>, USDC_TYPE, FEE_LOW>>
      [] OTHER            -> <<NFT_STRUCT>>
\* NFT.getFields(nft).pool_id and NFT.getOwner(nft) ("" is undefined)
NftPoolId(nft) == IF nft = "0xnftB" THEN "0xpoolB" ELSE "0xpoolA"
NftOwner(nft)  == IF nft = "0xnftShared" THEN "" ELSE "0xowner"
\* provider.getCoinMetadata(coinType) is not null
HasCoinMetadata(type) == type \in {SUI_TYPE, USDC_TYPE, ETH_TYPE}
\* contract.getFees() has an item of the fee type
HasFee(type) == type \in {FEE_LOW, FEE_HIGH}

\* the options of the calls
CoinPairs == {<<SUI_TYPE, USDC_TYPE>>, <<XYZ_TYPE, USDC_TYPE>>,
              <<SUI_TYPE, XYZ_TYPE>>}
OptionSlippages == {-500, 100, 10000}
\* the scaled-up amounts a and b
BigAmountA == 100
BigAmountB == 50

\* type.match(/(\w+::\w+::\w+)/g): the matches in one path, left to right
RECURSIVE PathMatches(_)
PathMatches(words) ==
    IF Len(words) < 3 THEN <<>>
    ELSE <<SubSeq(words, 1, 3)>> \o PathMatches(SubSeq(words, 4, Len(words)))
RECURSIVE Match(_)
Match(type) ==
    IF type = <<>> THEN <<>> ELSE PathMatches(Head(type)) \o Match(Tail(type))

parsePoolType(type) ==
    LET matched == Match(type)
    IN  IF Len(matched) # 4 THEN Thrown(<<>>)
        ELSE Returned(<<matched[2], matched[3], matched[4]>>)

\* the callback of getPoolTypeArguments: getObject, validateObjectResponse,
\* parsePoolType
FetchPoolType(poolId) ==
    IF ~ObjectExists(poolId) THEN Thrown(<<>>)
    ELSE parsePoolType(getObjectType(poolId))

\* both amount_min arguments are computed
SlippageAccepted(h) ==
    /\ getMinimumAmountBySlippage(BigAmountA, h).kind = "return"
    /\ getMinimumAmountBySlippage(BigAmountB, h).kind = "return"

\* the coin types the metadata is read for
CallCoinTypes ==
    IF callName = "createPool" THEN options.coins
    ELSE <<typeArguments[1], typeArguments[2]>>

InitPool ==
    /\ NoSlippageCall /\ NoLiquidityCall /\ NoSelectCall /\ NoTickCall
    /\ NoIsSUICall /\ NoPoolCall

otherVars == <<slippageVars, liquidityVars, selectVars, tickVars, suiVars>>

\* a call begins when no other call of the instance is in progress
Begin(name, opts, first, p) ==
    /\ callName' = name
    /\ options' = opts
    /\ pc' = first
    /\ pool' = p
    /\ typeArguments' = <<>>
    /\ signCount' = 0
    /\ callResult' = Pending("")
    /\ UNCHANGED <<poolTypeCache, otherVars>>

\* the call throws: its promise is rejected
Throw ==
    /\ pc' = "done"
    /\ callResult' = Thrown("")

CallCreatePool ==
    /\ pc \in {"idle", "done"}
    /\ \E c \in CoinPairs, h \in OptionSlippages :
           Begin("createPool", [NoOptions EXCEPT !.coins = c, !.slippage = h],
                 "getCoinMetadata", "")

CallAddLiquidity ==
    /\ pc \in {"idle", "done"}
    /\ \E p \in PoolIds, h \in OptionSlippages :
           Begin("addLiquidity", [NoOptions EXCEPT !.pool = p, !.slippage = h],
                 "getPoolTypeArguments", p)

CallIncreaseLiquidity ==
    /\ pc \in {"idle", "done"}
    /\ \E n \in NftIds, h \in OptionSlippages :
           Begin("increaseLiquidity", [NoOptions EXCEPT !.nft = n, !.slippage = h],
                 "nft", "")

CallDecreaseLiquidity ==
    /\ pc \in {"idle", "done"}
    /\ \E n \in NftIds, h \in OptionSlippages :
           Begin("decreaseLiquidity", [NoOptions EXCEPT !.nft = n, !.slippage = h],
                 "nft", "")

\* await Promise.all([nft.getFields(nft), nft.getOwner(nft) or
\* nft.getPositionFields(nft)]), and the owner test of increaseLiquidity
NftReads ==
    /\ pc = "nft"
    /\ IF \/ ~ObjectExists(options.nft)
          \/ callName = "increaseLiquidity" /\ NftOwner(options.nft) = ""
       THEN Throw /\ UNCHANGED pool
       ELSE /\ pool' = NftPoolId(options.nft)
            /\ pc' = "getPoolTypeArguments"
            /\ UNCHANGED callResult
    /\ UNCHANGED <<poolTypeCache, callName, options, typeArguments, signCount,
                   otherVars>>

\* Base.getCacheOrSet(key, orSet) on the entry `entry` of the key: the value
\* of the entry when there is one; otherwise the callback runs, and what it
\* returns is stored and returned (what it throws is thrown, nothing stored)
getCacheOrSet(entry, orSet) ==
    IF entry # <<>> THEN [outcome |-> Returned(entry), entry |-> entry]
    ELSE IF orSet.kind = "throw" THEN [outcome |-> orSet, entry |-> entry]
    ELSE [outcome |-> orSet, entry |-> orSet.value]

\* await this.getPoolTypeArguments(pool):
\* getCacheOrSet('pool-type', callback reading the pool object)
GetPoolTypeArguments ==
    /\ pc = "getPoolTypeArguments"
    /\ LET got == getCacheOrSet(poolTypeCache, FetchPoolType(pool))
       IN  /\ poolTypeCache' = got.entry
           /\ IF got.outcome.kind = "throw"
              THEN Throw /\ UNCHANGED typeArguments
              ELSE /\ typeArguments' = got.outcome.value
                   /\ pc' = "getCoinMetadata"
                   /\ UNCHANGED callResult
    /\ UNCHANGED <<callName, options, pool, signCount, otherVars>>

\* the entry is dropped (a cache whose entries have a lifetime)
CacheExpires ==
    /\ poolTypeCache # <<>>
    /\ poolTypeCache' = <<>>
    /\ UNCHANGED <<callName, options, pc, pool, typeArguments, signCount,
                   callResult, otherVars>>

\* await Promise.all([getCoinMetadata(coinTypeA), getCoinMetadata(coinTypeB)])
\* and if (!coinA || !coinB) throw
GetCoinMetadata ==
    /\ pc = "getCoinMetadata"
    /\ IF HasCoinMetadata(CallCoinTypes[1]) /\ HasCoinMetadata(CallCoinTypes[2])
       THEN /\ pc' = IF callName = "decreaseLiquidity" THEN "moveCall"
                     ELSE "selectTradeCoins"
            /\ UNCHANGED callResult
       ELSE Throw
    /\ UNCHANGED <<poolTypeCache, callName, options, pool, typeArguments,
                   signCount, otherVars>>

\* await Promise.all([coin.selectTradeCoins(...), coin.selectTradeCoins(...)])
SelectTradeCoins ==
    /\ pc = "selectTradeCoins"
    /\ pc' = IF callName = "addLiquidity" THEN "getFees" ELSE "moveCall"
    /\ UNCHANGED <<poolTypeCache, callName, options, pool, typeArguments,
                   signCount, callResult, otherVars>>

\* await contract.getFees(), fees.find(...)! and the two getTickIndex calls,
\* which read fee.tickSpacing
GetFees ==
    /\ pc = "getFees"
    /\ IF HasFee(typeArguments[3])
       THEN pc' = "moveCall" /\ UNCHANGED callResult
       ELSE Throw
    /\ UNCHANGED <<poolTypeCache, callName, options, pool, typeArguments,
                   signCount, otherVars>>

\* txb.moveCall({... getMinimumAmountBySlippage(bigAmountA, slippage) ...})
\* and return signAndExecute(txb, this.provider)
MoveCallAndSign ==
    /\ pc = "moveCall"
    /\ IF SlippageAccepted(options.slippage)
       THEN /\ signCount' = signCount + 1
            /\ pc' = "signAndExecute"
            /\ UNCHANGED callResult
       ELSE Throw /\ UNCHANGED signCount
    /\ UNCHANGED <<poolTypeCache, callName, options, pool, typeArguments,
                   otherVars>>

\* the promise of signAndExecute settles, and with it the call
SignAndExecuteSettles ==
    /\ pc = "signAndExecute"
    /\ pc' = "done"
    /\ \E fulfilled \in BOOLEAN :
           callResult' = IF fulfilled THEN Returned("response") ELSE Thrown("")
    /\ UNCHANGED <<poolTypeCache, callName, options, pool, typeArguments,
                   signCount, otherVars>>

NextPool ==
    \/ CallCreatePool
    \/ CallAddLiquidity
    \/ CallIncreaseLiquidity
    \/ CallDecreaseLiquidity
    \/ NftReads
    \/ GetPoolTypeArguments
    \/ CacheExpires
    \/ GetCoinMetadata
    \/ SelectTradeCoins
    \/ GetFees
    \/ MoveCallAndSign
    \/ SignAndExecuteSettles

SpecPool == InitPool /\ [][NextPool]_vars

\* ------------------------------------------------------- the whole model
Init ==
    InitSlippage \/ InitLiquidity \/ InitTick \/ InitSelect \/ InitIsSUI
        \/ InitPool

Next ==
    \/ CallGetMinimumAmountBySlippage
    \/ CallGetTokenAmountsFromLiquidity
    \/ CallGetTickIndex
    \/ GetCoinsPage
    \/ GetCoinsLastPage
    \/ CallIsSUI
    \/ CallCreatePool
    \/ CallAddLiquidity
    \/ CallIncreaseLiquidity
    \/ CallDecreaseLiquidity
    \/ NftReads
    \/ GetPoolTypeArguments
    \/ CacheExpires
    \/ GetCoinMetadata
    \/ SelectTradeCoins
    \/ GetFees
    \/ MoveCallAndSign
    \/ SignAndExecuteSettles

Spec == Init /\ [][Next]_vars

\* ================================================================ claims
\* ---- getTokenAmountsFromLiquidity

\* n / d rounded once, up unless options.ceil is false (d > 0)
RoundOnce(n, d, opt) == IF opt # "false" THEN -((-n) \div d) ELSE n \div d

\* the three-region formulas on integers, rounded only at the end
ExactTokenAmounts(cur, lower, upper, liq, opt) ==
    LET X64 == Pow(2, X64Bits)
    IN  IF cur < lower
        THEN <<RoundOnce(liq * X64 * (upper - lower), lower * upper, opt), 0>>
        ELSE IF cur < upper
        THEN <<RoundOnce(liq * X64 * (upper - cur), cur * upper, opt),
               RoundOnce(liq * (cur - lower), X64, opt)>>
        ELSE <<0, RoundOnce(liq * (upper - lower), X64, opt)>>

\* C1: getTokenAmountsFromLiquidity returns the three-region formulas of the
\* prices and the liquidity, each amount rounded once, at the end, up unless
\* ceil is false.
C1_ThreeRegionFormulas ==
    tokenAmounts.kind = "return" =>
        tokenAmounts.value = ExactTokenAmounts(currentSqrtPrice, lowerSqrtPrice,
                                               upperSqrtPrice, liquidity,
                                               ceilOption)

C2_ThrowsExactlyOutsideRange ==
    minimumAmount.kind \in {"return", "throw"} =>
        (minimumAmount.kind = "throw" <=> (slippage < 0 \/ slippage >= 10000))

\* C3: for a non-negative amount and a slippage in [0, 100) the call returns
\* floor(desired * (1 - slippage / 100)).
C3_ReturnsFloor ==
    (/\ minimumAmount.kind = "return"
     /\ amount >= 0
     /\ slippage >= 0 /\ slippage < 10000) =>
        minimumAmount.value = (amount * (10000 - slippage)) \div 10000

RECURSIVE SumBalances(_)
SumBalances(ids) ==
    IF ids = <<>> THEN 0 ELSE owned[Head(ids)] + SumBalances(Tail(ids))

\* the ids of the owner's coins by balance descending, equal balances in
\* the order of arrival
RECURSIVE InsertByBalance(_, _)
InsertByBalance(i, s) ==
    IF s = <<>> THEN <<i>>
    ELSE IF owned[Head(s)] >= owned[i]
         THEN <<Head(s)>> \o InsertByBalance(i, Tail(s))
         ELSE <<i>> \o s

RECURSIVE DescendingIds(_)
DescendingIds(n) ==
    IF n = 0 THEN <<>> ELSE InsertByBalance(n, DescendingIds(n - 1))

\* C4: a non-empty selection shorter than the full set is a minimal prefix:
\* its records but the last sum to less than the target, and all of them to
\* the target or more.
C4_MinimalPrefix ==
    (/\ coinIds.kind = "return"
     /\ Len(coinIds.value) > 0
     /\ Len(coinIds.value) < Len(owned)) =>
        LET ids == coinIds.value
        IN  /\ SumBalances(SubSeq(ids, 1, Len(ids) - 1)) < needAmount
            /\ SumBalances(ids) >= needAmount

\* C5: the selection is a prefix of the candidates sorted by balance
\* descending, equal balances in arrival order.
C5_PrefixOfDescending ==
    coinIds.kind = "return" =>
        coinIds.value = SubSeq(DescendingIds(Len(owned)), 1, Len(coinIds.value))

\* C6: with a target of zero the selection is empty.
C6_ZeroTargetSelectsNothing ==
    (coinIds.kind = "return" /\ needAmount = 0) => coinIds.value = <<>>

\* C7: when all the balances together are less than the target, the call
\* does not fail and returns every candidate, each exactly once.
C7_ShortfallReturnsAll ==
    (/\ coinIds.kind \in {"return", "throw"}
     /\ SumBalances([i \in 1 .. Len(owned) |-> i]) < needAmount) =>
        /\ coinIds.kind = "return"
        /\ Len(coinIds.value) = Len(owned)
        /\ {coinIds.value[k] : k \in 1 .. Len(coinIds.value)} = 1 .. Len(owned)

C7_Witness ==
    /\ coinIds.kind = "return"
    /\ Len(owned) >= 2
    /\ owned[1] < owned[2]
    /\ SumBalances([i \in 1 .. Len(owned) |-> i]) < needAmount
    /\ Len(coinIds.value) = Len(owned)

\* ---- getTickIndex

\* C10: the snapped tick is a multiple of the tick spacing, and snapping it
\* again returns it unchanged.
C10_SnappedIsMultiple ==
    tickIndex.kind = "return" =>
        /\ Remainder(tickIndex.value, tickSpacing) = 0
        /\ getTickIndex(tickIndex.value, tickSpacing) = tickIndex.value

C10_Witness ==
    /\ tickIndex.kind = "return"
    /\ derivedTick < 0
    /\ Remainder(derivedTick, tickSpacing) # 0
    /\ tickIndex.value # derivedTick

\* C11: the snapped tick is the greatest multiple of the tick spacing that
\* is not above the derived tick: snapped <= tick and tick - snapped is
\* less than the spacing.
C11_SnappedDown ==
    tickIndex.kind = "return" =>
        /\ tickIndex.value <= derivedTick
        /\ derivedTick - tickIndex.value < tickSpacing

\* ---- isSUI

\* a character that lower-cases to the given lower-case letter
IsLetter(c, lower) ==
    \/ c = lower
    \/ \E k \in 1 .. Len(LowerCaseLetters) :
           LowerCaseLetters[k] = lower /\ UpperCaseLetters[k] = c

\* the lower-cased string has "sui" at three places next to each other
ContainsSui(str) ==
    \E k \in 1 .. Len(str) - 2 :
        IsLetter(str[k], "s") /\ IsLetter(str[k + 1], "u")
            /\ IsLetter(str[k + 2], "i")

\* C12: isSUI is true exactly when the lower-cased coin type contains the
\* contiguous substring "sui"; the five valid coin types of the test suite
\* are accepted and the five invalid ones rejected.
C12_TrueExactlyOnSubstring ==
    isSuiResult.kind = "return" =>
        /\ isSuiResult.value = ContainsSui(coinType)
        /\ coinType \in ValidCoinTypes => isSuiResult.value = TRUE
        /\ coinType \in InvalidCoinTypes => isSuiResult.value = FALSE

C12_Witness ==
    /\ isSuiResult = Returned(TRUE)
    /\ indexOf(coinType, SUI_LITERAL) = -1
    /\ Len(coinType) > Len(SUI_LITERAL)

\* the data of the first n pages fetched, one after the other
RECURSIVE FetchedData(_)
FetchedData(n) ==
    IF n = 0 THEN <<>> ELSE FetchedData(n - 1) \o requests[n].data

\* every coin record of the owner, in the order of the listing
AllCoinRecords == [i \in 1 .. Len(owned) |-> CoinRecord(i)]

\* C13: the pages are requested one after another, the first from the
\* beginning and each later one with the nextCursor of the response before
\* it, and only a response with hasNextPage is followed by a request; until
\* the response without a next page has arrived nothing is sorted or
\* selected, and what is then sorted and selected from is the concatenation
\* of all pages fetched, which is the owner's whole listing.
C13_DrainedBeforeSelection ==
    coinIds.kind # "idle" =>
        LET n == Len(requests)
        IN  /\ n >= 1 => requests[1].cursor = 0
            /\ \A k \in 2 .. n : requests[k].cursor = requests[k - 1].nextCursor
            /\ \A k \in 1 .. n - 1 : requests[k].hasNextPage
            /\ coinIds.kind = "return" <=> (n >= 1 /\ ~requests[n].hasNextPage)
            /\ coinIds.kind = "pending" =>
                   coinIds.value = <<>> /\ coins = FetchedData(n)
            /\ coinIds.kind = "return" =>
                   /\ FetchedData(n) = AllCoinRecords
                   /\ coins = SortCoins(FetchedData(n))
                   /\ coinIds.value = SelectFrom(FetchedData(n), needAmount)

C13_Witness ==
    /\ coinIds.kind = "return"
    /\ Len(requests) = 3
    /\ Len(requests[3].data) = 1
    /\ coinIds.value = <<3>>

\* ---- Pool operations

\* the pool a call is about: options.pool, or the pool_id of options.nft
PoolOfCall ==
    IF callName = "addLiquidity" THEN options.pool ELSE NftPoolId(options.nft)

\* every read and every validation of the call in progress succeeds: the
\* slippage is in [0, 100), the nft exists and (increaseLiquidity) has an
\* owner, the type of the pool parses, both coins have metadata
ValidationsSucceed ==
    /\ 0 <= options.slippage /\ options.slippage < 10000
    /\ callName = "createPool" =>
           HasCoinMetadata(options.coins[1]) /\ HasCoinMetadata(options.coins[2])
    /\ callName \in {"increaseLiquidity", "decreaseLiquidity"} =>
           ObjectExists(options.nft)
    /\ callName = "increaseLiquidity" => NftOwner(options.nft) # ""
    /\ callName # "createPool" =>
           /\ FetchPoolType(PoolOfCall).kind = "return"
           /\ HasCoinMetadata(FetchPoolType(PoolOfCall).value[1])
           /\ HasCoinMetadata(FetchPoolType(PoolOfCall).value[2])

\* C14: a call of createPool, addLiquidity, increaseLiquidity or
\* decreaseLiquidity invokes signAndExecute at most once and only when every
\* read and validation has succeeded; when one of them fails the call ends
\* with an error and signAndExecute is never invoked.
C14_SignOnlyAfterValidation ==
    callName # "" =>
        /\ signCount <= 1
        /\ signCount = 1 =>
               ValidationsSucceed /\ pc \in {"signAndExecute", "done"}
        /\ (pc = "done" /\ ~ValidationsSucceed) =>
               callResult.kind = "throw" /\ signCount = 0

\* C15: whatever calls were made before on the instance,
\* getPoolTypeArguments(poolId) returns the triple parsed from the type of
\* the pool object with that id.
C15_TripleOfRequestedPool ==
    (callName \in {"addLiquidity", "increaseLiquidity", "decreaseLiquidity"}
     /\ typeArguments # <<>>) =>
        /\ FetchPoolType(pool).kind = "return"
        /\ typeArguments = FetchPoolType(pool).value

=============================================================================
